---- MODULE Spec2Model ----
(***************************************************************************)
(* Model of simple_task_repeater/str_app.py (class STRApp): the command    *)
(* handlers, the task field resolver and the actualization sweep, over a   *)
(* repository of users and tasks and an external clock.                    *)
(*                                                                         *)
(* Representation of text.  A message is the sequence of its whitespace-   *)
(* separated words, and a word is the sequence of its ':'-separated        *)
(* pieces, so "/add abc buy milk period:2" is                              *)
(*   << <<"/add">>, <<"abc">>, <<"buy">>, <<"milk">>, <<"period","2">> >>. *)
(* Field values produced by the tokenizer are strings again (words joined  *)
(* by one blank).                                                          *)
(*                                                                         *)
(* Representation of time.  A datetime is [day, tod]: a calendar day       *)
(* (an integer) and a time of day, "am" or "pm".  Calendar day 0 is        *)
(* written "2024-01-01" in messages.  The clock advances between commands: *)
(* all readings of the clock within one handler return the same moment.    *)
(*                                                                         *)
(* Repository.  STRDatabase and Task are not part of str_app.py; they are  *)
(* modelled from their contract: the repository is a set of registered     *)
(* users and a set of Task records in which (user, shortcut) is unique,    *)
(* a user's tasks are the records carrying that user, and get_task hands   *)
(* out a copy that only update_task stores.                                *)
(***************************************************************************)
EXTENDS Integers, Sequences, FiniteSets, TLC

VARIABLES
    now,                  \* the clock: what get_current_datetime() returns
    users,                \* repository: db.user_names
    tasks,                \* repository: the stored Task records
    lastActualize,        \* STRApp._last_actualize_date (a calendar day)
    ncmds,                \* number of commands handled so far
    nticks,               \* number of clock advances so far
    hung,                 \* TRUE once a handler has entered a loop it never leaves
    last                  \* the last command handled and how it ended

vars == <<now, users, tasks, lastActualize, ncmds, nticks, hung, last>>

----------------------------------------------------------------------------
(* Program constants and model bounds *)

DEFAULT_PERIOD == 4
TASK_PER_DAY_LIMIT == 3

MaxCmds == 1              \* commands handled in one behaviour
MaxTicks == 2             \* clock advances in one behaviour

----------------------------------------------------------------------------
(* Python values *)

\* The value None (what dateparser.parse returns for text it cannot parse).
None == [none |-> TRUE]

DateTime(d, t) == [day |-> d, tod |-> t]

IsDateTime(v) == DOMAIN v = {"day", "tod"}

\* datetime + datetime.timedelta(days = n)
AddDays(dt, n) == [dt EXCEPT !.day = @ + n]

\* calmlib.to_date / datetime.date(): the calendar-day part
to_date(dt) == dt.day

\* A list and a str held by the same attribute are told apart by their tag.
PyList(s) == [list |-> s]
PyStr(s) == [str |-> s]
IsPyList(v) == DOMAIN v = {"list"}

\* Truth value of a str: the empty string is false
Truthy(s) == s # ""

Last(s) == s[Len(s)]
Front(s) == SubSeq(s, 1, Len(s) - 1)

----------------------------------------------------------------------------
(* Text helpers *)

RECURSIVE JoinWith(_, _)
\* sep.join(strs)
JoinWith(strs, sep) ==
    IF strs = <<>> THEN ""
    ELSE IF Len(strs) = 1 THEN strs[1]
    ELSE strs[1] \o sep \o JoinWith(Tail(strs), sep)

\* The text of a word: its pieces with the colons back in place
WordText(word) == JoinWith(word, ":")

RECURSIVE AddPieces(_, _, _)
\* Feed the pieces of one word, from the i-th on, to the parts collected so
\* far: a piece after a colon opens a new part, an empty piece adds no word.
AddPieces(parts, word, i) ==
    IF i > Len(word) THEN parts
    ELSE LET opened == IF i > 1 THEN Append(parts, <<>>) ELSE parts
             n == Len(opened)
             grown == IF word[i] = "" THEN opened
                      ELSE [opened EXCEPT ![n] = Append(@, word[i])]
         IN AddPieces(grown, word, i + 1)

RECURSIVE SplitColon(_, _)
\* message.split(':') on the words of the remainder: the sequence of parts,
\* each part the sequence of the words between two colons.
SplitColon(words, parts) ==
    IF words = <<>> THEN parts
    ELSE SplitColon(Tail(words), AddPieces(parts, Head(words), 1))

----------------------------------------------------------------------------
(* Results of operations that may raise *)

Ok(v) == [exc |-> "", val |-> v]
Raise(e) == [exc |-> e, val |-> <<>>]
Raised(r) == r.exc # ""

----------------------------------------------------------------------------
(* Command Tokenizer: STRApp._tokenize_message *)

RECURSIVE TokenizeParts(_, _, _, _)
\* The loop of lines 36-39 over the parts of the remainder, from the i-th on:
\* every part but the last is "<value of the current key> <next key>", and
\* the unpacking of rsplit(maxsplit=1) raises ValueError unless the part has
\* at least two words; the last part is the value of the last key.
TokenizeParts(parts, i, key, result) ==
    IF i = Len(parts)
    THEN Ok((key :> JoinWith(parts[i], " ")) @@ result)
    ELSE IF Len(parts[i]) < 2
    THEN Raise("ValueError")
    ELSE TokenizeParts(parts, i + 1, Last(parts[i]),
                       (key :> JoinWith(Front(parts[i]), " ")) @@ result)

\* del result['text'] when it is empty (lines 40-41)
DropEmptyText(result) ==
    IF result["text"] = ""
    THEN [k \in DOMAIN result \ {"text"} |-> result[k]]
    ELSE result

\* _tokenize_message without the early return of lines 31-32: a message of
\* verb and shortcut reaches the unpacking of split(maxsplit=2)
TokenizeWithoutEarlyReturn(message) ==
    IF Len(message) <= 2 THEN Raise("ValueError")
    ELSE LET parts == SplitColon(SubSeq(message, 3, Len(message)), << <<>> >>)
             r == TokenizeParts(parts, 1, "text", [shortcut |-> WordText(message[2])])
         IN IF Raised(r) THEN r ELSE Ok(DropEmptyText(r.val))

_tokenize_message(message) ==
    IF Len(message) = 1 THEN Raise("ValueError")
    ELSE IF Len(message) = 2 THEN Ok([shortcut |-> WordText(message[2])])
    ELSE IF Len(message) = 0 THEN Raise("ValueError")
    ELSE LET parts == SplitColon(SubSeq(message, 3, Len(message)), << <<>> >>)
             r == TokenizeParts(parts, 1, "text",
                                [shortcut |-> WordText(message[2])])
         IN IF Raised(r) THEN r ELSE Ok(DropEmptyText(r.val))

----------------------------------------------------------------------------
(* External collaborators: date parser, int(), clock *)

\* The date texts the parser understands.  A text with no time of day is
\* the start of that day.
DateTexts ==
    [ x \in {"2024-01-01", "2024-01-05"} |->
        IF x = "2024-01-01" THEN DateTime(0, "am") ELSE DateTime(4, "am") ]

\* dateparser.parse on a str: the datetime, or None when it cannot parse
parse_date(text) ==
    IF text \in DOMAIN DateTexts THEN DateTexts[text] ELSE None

\* The integer literals of the messages
IntTexts == [ x \in {"0", "1", "2"} |-> IF x = "0" THEN 0 ELSE IF x = "1" THEN 1 ELSE 2 ]

\* int(text): ValueError unless text is an integer literal
int(text) ==
    IF text \in DOMAIN IntTexts THEN Ok(IntTexts[text]) ELSE Raise("ValueError")

\* The clock one step later: morning to evening, evening to next morning
NextMoment(dt) ==
    IF dt.tod = "am" THEN DateTime(dt.day, "pm") ELSE DateTime(dt.day + 1, "am")

----------------------------------------------------------------------------
(* Repository (STRDatabase) and the Task entity *)

NoText == ""

\* Task(**fields): the fields given, and the defaults of those left out.
\* A str given for reschedule is kept as its truth value, which is all the
\* sweep reads of it; a str given for completions is kept as that str.
Task(fields) ==
    [ user        |-> fields["user"],
      shortcut    |-> fields["shortcut"],
      text        |-> IF "text" \in DOMAIN fields THEN fields["text"] ELSE NoText,
      date        |-> fields["date"],
      period      |-> fields["period"],
      reschedule  |-> IF "reschedule" \in DOMAIN fields
                      THEN Truthy(fields["reschedule"]) ELSE FALSE,
      completions |-> IF "completions" \in DOMAIN fields
                      THEN PyStr(fields["completions"]) ELSE PyList(<<>>) ]

\* The attributes a command can name
TaskFields ==
    {"user", "shortcut", "text", "date", "period", "reschedule", "completions"}

get_users_tasks(db, user) == {t \in db : t.user = user}

\* add_user fails for a user that exists, remove_user for one that does not
add_user(registered, name) ==
    IF name \in registered THEN Raise("ValueError")
    ELSE Ok(registered \cup {name})

remove_user(registered, name) ==
    IF name \notin registered THEN Raise("ValueError")
    ELSE Ok(registered \ {name})

Stored(db, user, shortcut) == {t \in db : t.user = user /\ t.shortcut = shortcut}

get_task(db, user, shortcut) ==
    IF Stored(db, user, shortcut) = {} THEN Raise("NotFoundError")
    ELSE Ok(CHOOSE t \in Stored(db, user, shortcut) : TRUE)

add_task(db, registered, task) ==
    IF task.user \notin registered THEN Raise("NotFoundError")
    ELSE IF Stored(db, task.user, task.shortcut) # {} THEN Raise("ConflictError")
    ELSE Ok(db \cup {task})

\* Replace the stored task matching (user, task.shortcut) by task.  The
\* handlers call it as update_task(user, task) and as update_task(task); the
\* second form matches on the task's own user.
update_task(db, registered, user, task) ==
    IF Stored(db, user, task.shortcut) = {} THEN Raise("NotFoundError")
    ELSE IF task.user \notin registered THEN Raise("NotFoundError")
    ELSE IF task.user # user /\ Stored(db, task.user, task.shortcut) # {}
    THEN Raise("ConflictError")
    ELSE Ok((db \ Stored(db, user, task.shortcut)) \cup {task})

remove_task(db, user, shortcut) ==
    IF Stored(db, user, shortcut) = {} THEN Raise("NotFoundError")
    ELSE Ok(db \ Stored(db, user, shortcut))

----------------------------------------------------------------------------
(* Task Field Resolver: _determine_suitable_date, _determine_suitable_period,
   _parse_task *)

\* Counter([task.date.date() for task in tasks])[day]
TasksOn(userTasks, day) ==
    Cardinality({t \in userTasks : to_date(t.date) = day})

RECURSIVE FindDateAbove(_, _)
\* FindDate with the limit compared by > instead of >=
FindDateAbove(userTasks, task_date) ==
    IF TasksOn(userTasks, to_date(task_date)) > TASK_PER_DAY_LIMIT
    THEN FindDateAbove(userTasks, AddDays(task_date, 1))
    ELSE task_date

RECURSIVE FindDate(_, _)
\* The loop of lines 71-72
FindDate(userTasks, task_date) ==
    IF TasksOn(userTasks, to_date(task_date)) >= TASK_PER_DAY_LIMIT
    THEN FindDate(userTasks, AddDays(task_date, 1))
    ELSE task_date

\* task.date.date() raises AttributeError on a task whose date is None
_determine_suitable_date(db, user_name, clock) ==
    LET userTasks == get_users_tasks(db, user_name)
    IN IF \E t \in userTasks : ~IsDateTime(t.date)
       THEN Raise("AttributeError")
       ELSE Ok(FindDate(userTasks, clock))

_determine_suitable_period(user) == DEFAULT_PERIOD

\* Lines 47-58: date and period are always present in the result
_parse_task(db, user, task, clock) ==
    LET date == IF "date" \in DOMAIN task
                THEN Ok(parse_date(task["date"]))
                ELSE _determine_suitable_date(db, user, clock)
        period == IF "period" \in DOMAIN task
                  THEN int(task["period"])
                  ELSE Ok(_determine_suitable_period(user))
    IN IF Raised(date) THEN date
       ELSE IF Raised(period) THEN period
       ELSE Ok(("date" :> date.val) @@ ("period" :> period.val) @@ task)

parse_message(db, user, message, clock) ==
    LET tokens == _tokenize_message(message)
    IN IF Raised(tokens) THEN tokens
       ELSE _parse_task(db, user, tokens.val, clock)

----------------------------------------------------------------------------
(* Rescheduler and Actualizer: the body of _actualize_tasks *)

\* Overdue comparing moments instead of calendar days
OverdueByMoment(task, today) ==
    \/ to_date(task.date) < to_date(today)
    \/ /\ to_date(task.date) = to_date(today)
       /\ task.date.tod = "am"
       /\ today.tod = "pm"

\* The loop condition of line 225
Overdue(task, today) == to_date(task.date) < to_date(today)

\* CatchUp with an if in place of the while: one step only
CatchUpOnce(task, today) ==
    IF Overdue(task, today)
    THEN IF task.reschedule
         THEN [task EXCEPT !.date = today]
         ELSE [task EXCEPT !.date = AddDays(@, task.period)]
    ELSE task

RECURSIVE CatchUpFloor(_, _)
\* CatchUp that stops at the last period boundary not after today
CatchUpFloor(task, today) ==
    IF Overdue(task, today)
    THEN IF task.reschedule
         THEN CatchUpFloor([task EXCEPT !.date = today], today)
         ELSE IF to_date(AddDays(task.date, task.period)) > to_date(today)
              THEN task
              ELSE CatchUpFloor([task EXCEPT !.date = AddDays(@, task.period)], today)
    ELSE task

RECURSIVE CatchUpByPeriod(_, _)
\* CatchUp that moves every task by its period, rescheduled or not
CatchUpByPeriod(task, today) ==
    IF Overdue(task, today)
    THEN CatchUpByPeriod([task EXCEPT !.date = AddDays(@, task.period)], today)
    ELSE task

RECURSIVE CatchUpPast(_, _)
\* CatchUp whose loop also moves a task dated today (<= for <) by its period
CatchUpPast(task, today) ==
    IF task.reschedule
    THEN IF Overdue(task, today) THEN [task EXCEPT !.date = today] ELSE task
    ELSE IF to_date(task.date) <= to_date(today)
         THEN CatchUpPast([task EXCEPT !.date = AddDays(@, task.period)], today)
         ELSE task

RECURSIVE CatchUp(_, _)
\* The while loop of lines 225-230 on one task
CatchUp(task, today) ==
    IF Overdue(task, today)
    THEN IF task.reschedule
         THEN CatchUp([task EXCEPT !.date = today], today)
         ELSE CatchUp([task EXCEPT !.date = AddDays(@, task.period)], today)
    ELSE task

\* to_date(task.date) raises on a task whose date is None
RaisesInSweep(task) == ~IsDateTime(task.date)

\* The while loop never ends on an overdue task that is not rescheduled and
\* whose period does not move its date forward
LoopsForever(task, today) ==
    /\ IsDateTime(task.date)
    /\ Overdue(task, today)
    /\ ~task.reschedule
    /\ task.period <= 0

StopsSweep(task, today) == RaisesInSweep(task) \/ LoopsForever(task, today)

\* for user in self.db.user_names: for task in self.db.get_users_tasks(user)
VisitedTasks(db, registered) ==
    UNION {get_users_tasks(db, u) : u \in registered}

RECURSIVE WriteBackKeepingOld(_, _, _, _)
\* WriteBack that stores the caught-up task next to the one it read
WriteBackKeepingOld(db, registered, pending, today) ==
    IF pending = {} THEN db
    ELSE LET t == CHOOSE x \in pending : TRUE
         IN WriteBackKeepingOld(db \cup {CatchUp(t, today)}, registered,
                                pending \ {t}, today)

RECURSIVE WriteBack(_, _, _, _)
\* Catch up each task of pending and write it back (line 231)
WriteBack(db, registered, pending, today) ==
    IF pending = {} THEN db
    ELSE LET t == CHOOSE x \in pending : TRUE
             written == update_task(db, registered, t.user, CatchUp(t, today))
         IN WriteBack(written.val, registered, pending \ {t}, today)

\* The sets of tasks a sweep can have written back when it reaches task b,
\* which stops it: all tasks of some of the other users (the order of users
\* and of tasks is the repository's), and some of the tasks of b's user.
DoneBefore(db, registered, b, today) ==
    LET others == {u \in registered \ {b.user} :
                     \A t \in get_users_tasks(db, u) : ~StopsSweep(t, today)}
        own == {t \in get_users_tasks(db, b.user) : ~StopsSweep(t, today)}
    IN { VisitedTasks(db, us) \cup ts : us \in SUBSET others, ts \in SUBSET own }

\* The possible outcomes of _actualize_tasks(): it completes, or it raises
\* or loops forever at some task with part of the tasks written back.
_actualize_tasks(db, registered, today) ==
    LET all == VisitedTasks(db, registered)
        stoppers == {t \in all : StopsSweep(t, today)}
    IN IF stoppers = {}
       THEN { [exc |-> "", loops |-> FALSE,
               db |-> WriteBack(db, registered, all, today)] }
       ELSE UNION { { [exc |-> IF RaisesInSweep(b) THEN "TypeError" ELSE "",
                       loops |-> ~RaisesInSweep(b),
                       db |-> WriteBack(db, registered, done, today)] :
                      done \in DoneBefore(db, registered, b, today) } :
                    b \in stoppers }

\* actualize_tasks(): the sweep runs when the day has advanced (lines 214-216)
SweepIsDue == lastActualize < to_date(now)

NumOverdue(db, registered, today) ==
    Cardinality({t \in VisitedTasks(db, registered) :
                   IsDateTime(t.date) /\ Overdue(t, today)})

----------------------------------------------------------------------------
(* Inputs: users, messages, the repository handed to the constructor *)

Users == {"alice", "bob"}

W(s) == <<s>>
KV(k, v) == <<k, v>>

\* What follows the command verb in the messages of add, update, remove,
\* get and complete
Tails ==
    { <<>>,
      <<W("abc")>>,
      <<W("t1")>>,
      <<W("abc"), W("buy"), W("milk")>>,
      <<W("abc"), W("buy"), W("milk"), KV("period", "2"), KV("date", "2024-01-01")>>,
      <<W("abc"), KV("period", "2"), KV("date", "2024-01-01")>>,
      <<W("abc"), W("buy"), W("milk"), KV("date", "someday")>>,
      <<W("abc"), W("buy"), W("milk"), KV("period", "soon")>>,
      <<W("abc"), W("buy"), W("milk"), KV("period", "0")>>,
      <<W("abc"), W("buy"), W("milk"), KV("user", "bob")>>,
      <<W("abc"), W("buy"), W("milk"), KV("completions", "none")>> }

\* What follows the verb in the messages of list
ListTails == { <<>>, <<W("2024-01-05")>>, <<W("someday")>> }

\* The moment the application is constructed
StartOfRun == DateTime(1, "pm")

StoredTask(user, shortcut, text, date, period, reschedule, completions) ==
    [ user |-> user, shortcut |-> shortcut, text |-> text, date |-> date,
      period |-> period, reschedule |-> reschedule,
      completions |-> PyList(completions) ]

\* Three tasks of alice on the day of construction
BusyDay ==
    { StoredTask("alice", "t1", "water plants", DateTime(1, "am"), 4, FALSE, <<>>),
      StoredTask("alice", "t2", "walk dog", DateTime(1, "pm"), 2, TRUE, <<>>),
      StoredTask("alice", "t3", "pay rent", DateTime(-1, "pm"), 1, FALSE, <<>>) }

\* Three more on the day after
BusyMorrow ==
    { StoredTask("alice", "t4", "call mom", DateTime(2, "am"), 1, FALSE, <<>>),
      StoredTask("alice", "t5", "read book", DateTime(2, "am"), 4, FALSE, <<>>),
      StoredTask("alice", "t6", "gym", DateTime(2, "pm"), 4, TRUE, <<>>) }

Chores ==
    { StoredTask("alice", "abc", "buy bread", DateTime(1, "pm"), 2, FALSE,
                 <<DateTime(-1, "pm")>>),
      StoredTask("alice", "xyz", "mow lawn", DateTime(-2, "am"), 2, FALSE, <<>>),
      StoredTask("bob", "abc", "feed cat", DateTime(0, "pm"), 1, TRUE, <<>>) }

\* What bob's "/add abc buy milk period:0" leaves in the repository
Naps ==
    { StoredTask("bob", "abc", "buy milk", StartOfRun, 0, FALSE, <<>>) }

\* The repositories the application is constructed on
InitialDbs ==
    { [users |-> {}, tasks |-> {}],
      [users |-> {"bob"}, tasks |-> Naps],
      [users |-> Users, tasks |-> Chores],
      [users |-> Users, tasks |-> BusyDay \cup {StoredTask("bob", "cat", "feed cat",
                                    DateTime(-3, "pm"), 1, TRUE, <<>>)}],
      [users |-> {"alice"}, tasks |-> BusyDay \cup BusyMorrow] }

----------------------------------------------------------------------------
(* State *)

\* The record of a handled command: the handler, its user and message, the
\* exception raised in it (if any), the reply it returned ("" when it
\* returned none), whether the sweep ran to completion in it and, if it
\* did, how many tasks were overdue and what the stored tasks were when the
\* sweep started.
Handled(op, user, msg, exc, reply) ==
    [ op |-> op, user |-> user, msg |-> msg, exc |-> exc, reply |-> reply,
      swept |-> FALSE, overdue |-> 0, before |-> {} ]

\* @catch_errors turns an exception into a reply
CaughtReply == "error"

\* __init__ (lines 19-23): the sweep, then _last_actualize_date
Init ==
    \E db \in InitialDbs :
      \E run \in _actualize_tasks(db.tasks, db.users, StartOfRun) :
        /\ run.exc = "" /\ ~run.loops
        /\ now = StartOfRun
        /\ users = db.users
        /\ tasks = run.db
        /\ lastActualize = to_date(StartOfRun)
        /\ ncmds = 0
        /\ nticks = 0
        /\ hung = FALSE
        /\ last = [Handled("__init__", "", <<>>, "", "") EXCEPT
                     !.swept = TRUE,
                     !.overdue = NumOverdue(db.tasks, db.users, StartOfRun),
                     !.before = db.tasks]

\* A handler runs to completion before the next command is taken
Ready == ~hung /\ ncmds < MaxCmds

Count == /\ ncmds' = ncmds + 1
         /\ UNCHANGED <<now, nticks>>

\* The command ended without touching the repository
Unchanged(op, user, msg, exc, reply) ==
    /\ last' = Handled(op, user, msg, exc, reply)
    /\ UNCHANGED <<users, tasks, lastActualize, hung>>

\* The command stored db
Stores(op, user, msg, db, reply) ==
    /\ last' = Handled(op, user, msg, "", reply)
    /\ tasks' = db
    /\ UNCHANGED <<users, lastActualize, hung>>

\* The clock advances
Tick ==
    /\ nticks < MaxTicks
    /\ nticks' = nticks + 1
    /\ now' = NextMoment(now)
    /\ last' = Handled("tick", "", <<>>, "", "")
    /\ UNCHANGED <<users, tasks, lastActualize, ncmds, hung>>

----------------------------------------------------------------------------
(* Command handlers *)

Message(verb, tail) == <<W(verb)>> \o tail

RECURSIVE TextOf(_)
\* The text of a sequence of words
TextOf(words) ==
    IF words = <<>> THEN ""
    ELSE IF Len(words) = 1 THEN WordText(words[1])
    ELSE WordText(words[1]) \o " " \o TextOf(Tail(words))

\* add (lines 79-95)
Add(user, tail) ==
    LET msg == Message("/add", tail)
        parsed == parse_message(tasks, user, msg, now)
        task == Task(parsed.val @@ [user |-> user])
        added == add_task(tasks, users, task)
    IN /\ Ready
       /\ Count
       /\ IF Raised(parsed)
          THEN Unchanged("add", user, msg, parsed.exc, CaughtReply)
          ELSE IF Raised(added)
          THEN Unchanged("add", user, msg, added.exc, CaughtReply)
          ELSE Stores("add", user, msg, added.val, "Added task")

\* task.__dict__.update(update): every attribute named in update is
\* overwritten, the others are kept
MergeAttributes(task, update) ==
    [ f \in DOMAIN task |->
        IF f \notin DOMAIN update THEN task[f]
        ELSE IF f = "reschedule" THEN Truthy(update[f])
        ELSE IF f = "completions" THEN PyStr(update[f])
        ELSE update[f] ]

\* update (lines 97-106)
Update(user, tail) ==
    LET msg == Message("/update", tail)
        update == parse_message(tasks, user, msg, now)
        found == get_task(tasks, user, update.val["shortcut"])
        task == MergeAttributes(found.val, update.val)
        written == update_task(tasks, users, user, task)
    IN /\ Ready
       /\ Count
       /\ IF Raised(update)
          THEN Unchanged("update", user, msg, update.exc, CaughtReply)
          ELSE IF Raised(found)
          THEN Unchanged("update", user, msg, found.exc, CaughtReply)
          ELSE IF Raised(written)
          THEN Unchanged("update", user, msg, written.exc, CaughtReply)
          ELSE Stores("update", user, msg, written.val, "Successfully updated task")

\* remove (lines 108-116)
Remove(user, tail) ==
    LET msg == Message("/remove", tail)
        task == parse_message(tasks, user, msg, now)
        removed == remove_task(tasks, user, task.val["shortcut"])
    IN /\ Ready
       /\ Count
       /\ IF Raised(task)
          THEN Unchanged("remove", user, msg, task.exc, CaughtReply)
          ELSE IF Raised(removed)
          THEN Unchanged("remove", user, msg, removed.exc, CaughtReply)
          ELSE Stores("remove", user, msg, removed.val, "Task removed")

\* get (lines 118-126)
Get(user, tail) ==
    LET msg == Message("/get", tail)
        task == parse_message(tasks, user, msg, now)
        found == get_task(tasks, user, task.val["shortcut"])
    IN /\ Ready
       /\ Count
       /\ IF Raised(task)
          THEN Unchanged("get", user, msg, task.exc, CaughtReply)
          ELSE IF Raised(found)
          THEN Unchanged("get", user, msg, found.exc, CaughtReply)
          ELSE Unchanged("get", user, msg, "", "repr")

\* start without its try/except: the ValueError of add_user leaves the handler
StartUncaught(user) ==
    LET msg == Message("/start", <<>>)
        added == add_user(users, user)
    IN /\ Ready
       /\ Count
       /\ IF Raised(added)
          THEN Unchanged("start", user, msg, added.exc, "")
          ELSE /\ users' = added.val
               /\ last' = Handled("start", user, msg, "", "Added user")
               /\ UNCHANGED <<tasks, lastActualize, hung>>

\* start (lines 128-135): the ValueError of add_user becomes a reply
Start(user) ==
    LET msg == Message("/start", <<>>)
        added == add_user(users, user)
    IN /\ Ready
       /\ Count
       /\ IF Raised(added)
          THEN Unchanged("start", user, msg, "", "already active")
          ELSE /\ users' = added.val
               /\ last' = Handled("start", user, msg, "", "Added user")
               /\ UNCHANGED <<tasks, lastActualize, hung>>

\* stop (lines 137-144): the ValueError of remove_user becomes a reply; a
\* removed user's tasks go with the user
Stop(user) ==
    LET msg == Message("/stop", <<>>)
        removed == remove_user(users, user)
    IN /\ Ready
       /\ Count
       /\ IF Raised(removed)
          THEN Unchanged("stop", user, msg, "", "No user")
          ELSE /\ users' = removed.val
               /\ tasks' = tasks \ get_users_tasks(tasks, user)
               /\ last' = Handled("stop", user, msg, "", "Removed user")
               /\ UNCHANGED <<lastActualize, hung>>

\* list_all (lines 146-152)
ListAll(user) ==
    /\ Ready
    /\ Count
    /\ Unchanged("list_all", user, Message("/list_all", <<>>), "", "shortcuts")

\* help (lines 194-207)
Help(user) ==
    /\ Ready
    /\ Count
    /\ Unchanged("help", user, Message("/help", <<>>), "", "Commands")

\* Lines 167-174 of list: the filter and the header need a datetime for the
\* day asked for and for the date of each of the user's tasks
ListReply(db, user, date) ==
    IF \E t \in get_users_tasks(db, user) : ~IsDateTime(t.date) \/ ~IsDateTime(date)
    THEN Raise("TypeError")
    ELSE IF ~IsDateTime(date) THEN Raise("AttributeError")
    ELSE Ok("Tasks for")

\* list (lines 154-174) with actualize_tasks (lines 213-216) inlined.  The
\* handler has no @catch_errors: an exception leaves it
List(user, tail) ==
    LET msg == Message("/list", tail)
        date == IF TextOf(tail) # "" THEN parse_date(TextOf(tail)) ELSE now
    IN /\ Ready
       /\ Count
       /\ IF SweepIsDue
          THEN \E run \in _actualize_tasks(tasks, users, now) :
                 LET reply == ListReply(run.db, user, date)
                 IN /\ tasks' = run.db
                    /\ hung' = run.loops
                    /\ UNCHANGED users
                    /\ IF run.loops \/ run.exc # ""
                       THEN /\ last' = Handled("list", user, msg, run.exc, "")
                            /\ UNCHANGED lastActualize
                       ELSE /\ lastActualize' = to_date(now)
                            /\ last' = [Handled("list", user, msg, reply.exc,
                                                IF Raised(reply) THEN "" ELSE reply.val)
                                          EXCEPT !.swept = TRUE,
                                                 !.overdue = NumOverdue(tasks, users, now),
                                                 !.before = tasks]
          ELSE LET reply == ListReply(tasks, user, date)
               IN Unchanged("list", user, msg, reply.exc,
                            IF Raised(reply) THEN "" ELSE reply.val)

\* parse_date on a value that is not a str.  Line 186 hands it the value
\* that line 49 or 53 already put in place of the date text: the parser
\* rejects it (dateparser raises TypeError for anything but a str), or, if
\* it lets datetime values through, returns it as it is.
parse_date_of_value(value) == {Raise("TypeError"), Ok(value)}

\* complete (lines 176-192).  The handler has no @catch_errors
Complete(user, tail) ==
    LET msg == Message("/complete", tail)
        parsed == parse_message(tasks, user, msg, now)
    IN /\ Ready
       /\ Count
       /\ IF Raised(parsed)
          THEN Unchanged("complete", user, msg, parsed.exc, "")
          ELSE \E date \in (IF "date" \in DOMAIN parsed.val
                           THEN parse_date_of_value(parsed.val["date"])
                           ELSE {Ok(now)}) :
                 LET found == get_task(tasks, user, parsed.val["shortcut"])
                     task == found.val
                     completed ==
                         [task EXCEPT
                            !.completions = PyList(Append(@.list, date.val)),
                            !.date = AddDays(date.val, task.period)]
                     written == update_task(tasks, users, completed.user, completed)
                 IN IF Raised(date)
                    THEN Unchanged("complete", user, msg, date.exc, "")
                    ELSE IF Raised(found)
                    THEN Unchanged("complete", user, msg, found.exc, "")
                    ELSE IF ~IsPyList(task.completions)
                    THEN Unchanged("complete", user, msg, "AttributeError", "")
                    ELSE IF ~IsDateTime(date.val)
                    THEN Unchanged("complete", user, msg, "TypeError", "")
                    ELSE IF Raised(written)
                    THEN Unchanged("complete", user, msg, written.exc, "")
                    ELSE Stores("complete", user, msg, written.val, "")

----------------------------------------------------------------------------
(* Specification *)

Next ==
    \/ Tick
    \/ \E user \in Users, tail \in Tails : Add(user, tail)
    \/ \E user \in Users, tail \in Tails : Update(user, tail)
    \/ \E user \in Users, tail \in Tails : Remove(user, tail)
    \/ \E user \in Users, tail \in Tails : Get(user, tail)
    \/ \E user \in Users, tail \in Tails : Complete(user, tail)
    \/ \E user \in Users, tail \in ListTails : List(user, tail)
    \/ \E user \in Users : Start(user)
    \/ \E user \in Users : Stop(user)
    \/ \E user \in Users : ListAll(user)
    \/ \E user \in Users : Help(user)

Spec == Init /\ [][Next]_vars

----------------------------------------------------------------------------
(* Properties *)

\* The fields the tokenizer finds in the message of the last command
LastTokens == _tokenize_message(last.msg).val

DayOf(t) == t.date.day

\* C1: whenever the Actualizer has run for the current day
\* (_last_actualize_date is today), no stored task has a date whose
\* calendar day is before today.
C1_NoPastDateOnceActualized ==
    lastActualize = to_date(now) =>
        \A t \in tasks : IsDateTime(t.date) => DayOf(t) >= now.day

\* C2: when a full sweep has completed, every stored task has a date, and
\* its calendar day is not before today: no task was skipped.
C2_SweepLeavesNoTaskOverdue ==
    last.swept =>
        \A t \in tasks : IsDateTime(t.date) /\ DayOf(t) >= now.day

\* A list command ran the sweep over overdue tasks of two users
C2_Witness ==
    /\ last.op = "list"
    /\ last.swept
    /\ last.overdue >= 2
    /\ \E t1, t2 \in tasks : t1.user # t2.user

\* C3: an update that supplies only a shortcut and a text leaves the stored
\* task's date and period as they were.
C3_UpdateKeepsDateAndPeriod ==
    [][ ( /\ last'.op = "update"
          /\ last'.exc = ""
          /\ DOMAIN _tokenize_message(last'.msg).val = {"shortcut", "text"} )
        => \A t \in tasks, u \in tasks' :
             ( /\ t.user = last'.user /\ u.user = last'.user
               /\ t.shortcut = _tokenize_message(last'.msg).val["shortcut"]
               /\ u.shortcut = t.shortcut )
             => u.date = t.date /\ u.period = t.period ]_vars

\* The message of a command names a date the parser understands
GivesDate(msg) ==
    /\ ~Raised(_tokenize_message(msg))
    /\ "date" \in DOMAIN _tokenize_message(msg).val
    /\ IsDateTime(parse_date(_tokenize_message(msg).val["date"]))

\* The stored task a complete command names, completed at date c
CompletedAt(t, c) ==
    [t EXCEPT !.completions = PyList(Append(@.list, c)),
              !.date = AddDays(c, t.period)]

\* C4: complete on an existing task with completion date C appends C to
\* the task's completions, sets its date to C plus period days and stores
\* the result.
C4_CompleteAppendsAndAdvances ==
    [][ (last'.op = "complete" /\ GivesDate(last'.msg))
        => \A t \in tasks :
             ( /\ t.user = last'.user
               /\ t.shortcut = _tokenize_message(last'.msg).val["shortcut"]
               /\ IsPyList(t.completions)
               /\ ~Raised(parse_message(tasks, last'.user, last'.msg, now)) )
             => CompletedAt(t, parse_date(_tokenize_message(last'.msg).val["date"]))
                  \in tasks' ]_vars

\* C5: a complete command with no date attribute completes the task at the
\* current moment: now is appended and the date becomes now + period days.
C5_CompleteDefaultsToNow ==
    [][ ( /\ last'.op = "complete"
          /\ ~Raised(_tokenize_message(last'.msg))
          /\ "date" \notin DOMAIN _tokenize_message(last'.msg).val )
        => \A t \in tasks :
             ( /\ t.user = last'.user
               /\ t.shortcut = _tokenize_message(last'.msg).val["shortcut"]
               /\ IsPyList(t.completions)
               /\ ~Raised(parse_message(tasks, last'.user, last'.msg, now)) )
             => CompletedAt(t, now) \in tasks' ]_vars

\* The input of a command fails validation: no shortcut, a date text the
\* parser cannot parse, or a period text that is no integer
FailsValidation(msg) ==
    \/ Len(msg) < 2
    \/ /\ ~Raised(_tokenize_message(msg))
       /\ \/ /\ "date" \in DOMAIN _tokenize_message(msg).val
             /\ ~IsDateTime(parse_date(_tokenize_message(msg).val["date"]))
          \/ /\ "period" \in DOMAIN _tokenize_message(msg).val
             /\ Raised(int(_tokenize_message(msg).val["period"]))

\* C6: an add, update or complete whose input fails validation ends in an
\* error and leaves the repository as it was.
C6_InvalidInputChangesNothing ==
    [][ (last'.op \in {"add", "update", "complete"} /\ FailsValidation(last'.msg))
        => last'.exc # "" /\ tasks' = tasks /\ users' = users ]_vars

\* The task an add command stored: under the user named in the message, if
\* it names one, and under the issuing user otherwise
AddedTasks ==
    {t \in tasks :
       /\ t.shortcut = LastTokens["shortcut"]
       /\ t.user = IF "user" \in DOMAIN LastTokens
                   THEN LastTokens["user"] ELSE last.user}

\* C7: an add with no date attribute gives the new task the first calendar
\* day at or after now on which the issuing user has fewer than
\* TASK_PER_DAY_LIMIT other tasks, at the time of day of now.
C7_DefaultDateIsFirstFreeDay ==
    (last.op = "add" /\ last.exc = "" /\ "date" \notin DOMAIN LastTokens) =>
        /\ AddedTasks # {}
        /\ \A new \in AddedTasks :
             LET before == {t \in tasks \ {new} : t.user = last.user}
                 on(d) == Cardinality({t \in before : DayOf(t) = d})
             IN /\ IsDateTime(new.date)
                /\ new.date.tod = now.tod
                /\ DayOf(new) >= now.day
                /\ on(DayOf(new)) < TASK_PER_DAY_LIMIT
                /\ \A d \in now.day .. DayOf(new) - 1 : on(d) >= TASK_PER_DAY_LIMIT

\* An add with no date attribute walked over two full days
C7_Witness ==
    /\ last.op = "add"
    /\ last.exc = ""
    /\ "date" \notin DOMAIN LastTokens
    /\ \E new \in AddedTasks : DayOf(new) >= now.day + 2

\* C8: every stored task's period is a positive integer.
C8_PeriodPositive == \A t \in tasks : t.period >= 1

\* C9: the user field of a task is the id of the user whose add command
\* created it, and no command text sets or changes it: every task an add
\* or update stores belongs to the user who issued the command.
C9_OwnerIsIssuer ==
    [][ last'.op \in {"add", "update"}
        => \A t \in tasks' \ tasks : t.user = last'.user ]_vars

IsPrefix(s, t) == Len(s) <= Len(t) /\ SubSeq(t, 1, Len(s)) = s

\* C10: completions is append-only: in every step each task's completions
\* before the step is a prefix of its completions after it, and it grows
\* only in complete, by exactly one element.
C10_CompletionsAppendOnly ==
    [][ \A t \in tasks, u \in tasks' :
          (t.user = u.user /\ t.shortcut = u.shortcut) =>
            /\ IsPyList(u.completions)
            /\ IsPyList(t.completions)
            /\ IsPrefix(t.completions.list, u.completions.list)
            /\ u.completions # t.completions =>
                 /\ last'.op = "complete"
                 /\ Len(u.completions.list) = Len(t.completions.list) + 1 ]_vars

----------------------------------------------------------------------------
(* The sweep, task by task *)

\* The tasks the last handler's completed sweep visited, as they stood when
\* it started
SweptTasks ==
    IF last.swept
    THEN {t \in VisitedTasks(last.before, users) : IsDateTime(t.date)}
    ELSE {}

\* The date(s) now stored for the task t names
DateAfterSweep(t) == {x.date : x \in Stored(tasks, t.user, t.shortcut)}

\* Whole days from the task's day to today
DaysBehind(t) == to_date(now) - to_date(t.date)

\* C11 as stated: a task that is not rescheduled, dated D with period P,
\* swept at now = D + k*P + r days (0 <= r < P, k >= 1), is left dated
\* D + k*P.
C11_CatchUpStopsAtKPeriods ==
    \A t \in SweptTasks :
        (~t.reschedule /\ t.period >= 1 /\ DaysBehind(t) \div t.period >= 1)
        => DateAfterSweep(t) =
             {AddDays(t.date, (DaysBehind(t) \div t.period) * t.period)}

\* C11 amended: such a task is left dated D + k*P when r = 0 and
\* D + (k+1)*P when r > 0.
C11_CatchUpPassesToday ==
    \A t \in SweptTasks :
        (~t.reschedule /\ t.period >= 1 /\ DaysBehind(t) \div t.period >= 1)
        => LET k == DaysBehind(t) \div t.period
               r == DaysBehind(t) % t.period
           IN DateAfterSweep(t) =
                {AddDays(t.date, (IF r = 0 THEN k ELSE k + 1) * t.period)}

\* A sweep has caught up a task that was k >= 1 periods and r > 0 days behind
C11_Witness ==
    \E t \in SweptTasks :
        /\ ~t.reschedule
        /\ t.period >= 1
        /\ DaysBehind(t) \div t.period >= 1
        /\ DaysBehind(t) % t.period >= 1
        /\ DateAfterSweep(t) # {t.date}

\* C12: an overdue task with reschedule = true is left dated now, the moment
\* of the sweep, however many periods it missed and whatever its period.
C12_RescheduleSnapsToNow ==
    \A t \in SweptTasks :
        (t.reschedule /\ Overdue(t, now)) => DateAfterSweep(t) = {now}

\* A sweep has moved to now a rescheduled task that had missed more than one
\* of its periods
C12_Witness ==
    \E t \in SweptTasks :
        /\ t.reschedule
        /\ DaysBehind(t) > t.period
        /\ t.date # now
        /\ DateAfterSweep(t) = {now}

----------------------------------------------------------------------------
(* start and stop *)

\* C13: start sent by a registered user replies "already active" and stop
\* sent by an unregistered user replies "No user"; in both cases no
\* exception leaves the handler and the users and the stored tasks stay as
\* they were.
C13_StartStopFailGracefully ==
    [][ /\ (last'.op = "start" /\ last'.user \in users)
           => /\ last'.reply = "already active"
              /\ last'.exc = ""
              /\ users' = users
              /\ tasks' = tasks
        /\ (last'.op = "stop" /\ last'.user \notin users)
           => /\ last'.reply = "No user"
              /\ last'.exc = ""
              /\ users' = users
              /\ tasks' = tasks ]_vars

\* A registered user who owns tasks has sent start
C13_Witness ==
    /\ last.op = "start"
    /\ last.user \in users
    /\ last.reply = "already active"
    /\ get_users_tasks(tasks, last.user) # {}

----------------------------------------------------------------------------
(* The tokenizer *)

\* The handlers that tokenize their message
Tokenizing == {"add", "update", "remove", "get", "complete"}

\* After the shortcut the message holds key:value words only
AttributesOnly(msg) ==
    /\ Len(msg) >= 3
    /\ \A i \in 3..Len(msg) : Len(msg[i]) = 2

\* C14: a message whose remainder after the shortcut is key:value
\* attributes only is tokenized without error into the shortcut and each
\* attribute, with no text key.
C14_AttributesOnlyTokenizes ==
    (last.op \in Tokenizing /\ AttributesOnly(last.msg))
    => LET r == _tokenize_message(last.msg)
           attrs == {last.msg[i][1] : i \in 3..Len(last.msg)}
       IN /\ ~Raised(r)
          /\ DOMAIN r.val = {"shortcut"} \cup attrs
          /\ r.val["shortcut"] = WordText(last.msg[2])
          /\ \A i \in 3..Len(last.msg) : r.val[last.msg[i][1]] = last.msg[i][2]

\* C15: a message of the verb and one word without colons is tokenized into
\* the shortcut alone, and a message of the verb alone raises the ValueError
\* "No task shortcut provided", which leaves the handler.
C15_ShortcutOnlyAndNoShortcut ==
    last.op \in Tokenizing =>
        /\ (Len(last.msg) = 2 /\ Len(last.msg[2]) = 1)
           => _tokenize_message(last.msg) = Ok([shortcut |-> last.msg[2][1]])
        /\ Len(last.msg) = 1
           => /\ _tokenize_message(last.msg) = Raise("ValueError")
              /\ last.exc = "ValueError"

\* An add of the verb and a shortcut has stored a task under that shortcut
C15_Witness ==
    /\ last.op = "add"
    /\ Len(last.msg) = 2
    /\ Len(last.msg[2]) = 1
    /\ last.exc = ""
    /\ Stored(tasks, last.user, last.msg[2][1]) # {}

----------------------------------------------------------------------------
(* Termination of the sweep *)

\* C16: the sweep ends on every task that add or update can store: no
\* handler is ever left inside the catch-up loop.
C16_SweepTerminates == ~hung

----------------------------------------------------------------------------
(* The sweep: least number of periods, no-op, frame *)

\* C17: an overdue task that is not rescheduled, dated D with period
\* P >= 1, is left dated D + n*P days for the least n >= 0 whose day is not
\* before today; the time of day of D is kept.
C17_LeastNumberOfPeriods ==
    \A t \in SweptTasks :
        (~t.reschedule /\ Overdue(t, now) /\ t.period >= 1)
        => /\ \E n \in 0..DaysBehind(t) :
                /\ DateAfterSweep(t) = {AddDays(t.date, n * t.period)}
                /\ to_date(AddDays(t.date, n * t.period)) >= to_date(now)
                /\ \A m \in 0..(n - 1) :
                      to_date(AddDays(t.date, m * t.period)) < to_date(now)
           /\ \A d \in DateAfterSweep(t) : d.tod = t.date.tod

\* A sweep has moved a task by two of its periods, to a day after today, at
\* another time of day than the sweep's
C17_Witness ==
    \E t \in SweptTasks :
        /\ ~t.reschedule
        /\ Overdue(t, now)
        /\ t.date.tod # now.tod
        /\ DateAfterSweep(t) = {AddDays(t.date, 2 * t.period)}
        /\ to_date(AddDays(t.date, 2 * t.period)) > to_date(now)

\* C18: a sweep leaves as it was every task whose calendar day is not before
\* today, whatever its time of day, and a second sweep at the same moment
\* would complete and change nothing.
C18_NoOpAndIdempotent ==
    last.swept =>
        /\ \A t \in SweptTasks : to_date(t.date) >= to_date(now) => t \in tasks
        /\ _actualize_tasks(tasks, users, now) =
             { [exc |-> "", loops |-> FALSE, db |-> tasks] }

\* A sweep in the afternoon has moved overdue tasks and left alone a task
\* dated the same morning
C18_Witness ==
    /\ last.swept
    /\ last.overdue >= 1
    /\ now.tod = "pm"
    /\ \E t \in SweptTasks :
          /\ to_date(t.date) = to_date(now)
          /\ t.date.tod = "am"
          /\ t \in tasks

\* C19: a list command on a day later than the day of the last sweep runs
\* the whole sweep and sets _last_actualize_date to today; any other list
\* command runs no sweep.  _last_actualize_date never decreases and is never
\* after the current day.
C19_ListSweepsOncePerDay ==
    [][ /\ last'.op = "list"
           => IF lastActualize < to_date(now)
              THEN /\ last'.swept
                   /\ lastActualize' = to_date(now)
              ELSE /\ ~last'.swept
                   /\ tasks' = tasks
                   /\ lastActualize' = lastActualize
        /\ lastActualize' >= lastActualize
        /\ lastActualize' <= to_date(now') ]_vars

\* Task x is task t with, at most, another date
SameButDate(t, x) == [x EXCEPT !.date = t.date] = t

\* Between the repositories old and new only dates of overdue tasks differ
OnlyDatesMoved(old, new, today) ==
    /\ \A t \in old : \E x \in new : SameButDate(t, x)
    /\ \A x \in new : \E t \in old : SameButDate(t, x)
    /\ Cardinality(new) = Cardinality(old)
    /\ \A t \in old :
          (IsDateTime(t.date) => to_date(t.date) >= to_date(today)) => t \in new

\* C20: a sweep (the constructor's, or the one a list command runs, whether
\* it completes or not) adds and removes no user and no task, changes no
\* field of a task but its date, and keeps the date of a task that is not
\* overdue.
C20_SweepChangesOnlyDates ==
    /\ last.op = "__init__" => OnlyDatesMoved(last.before, tasks, now)
    /\ [][ last'.op = "list"
            => /\ users' = users
               /\ OnlyDatesMoved(tasks, tasks', now) ]_vars

\* A list command has swept a repository in which a task with text and
\* completions was overdue
C20_Witness ==
    /\ last.op = "list"
    /\ last.swept
    /\ \E t \in SweptTasks :
          /\ Overdue(t, now)
          /\ t.text # NoText
          /\ t.completions # PyList(<<>>)
          /\ t \notin tasks

====
